---- MODULE Spec2Model ----
(***************************************************************************)
(* Model of instrumentino/variables/__init__.py: the two text input        *)
(* filters (FloatInput, DurationInput) and the Variable hierarchy with its *)
(* text <-> value <-> percentage conversions.                              *)
(*                                                                         *)
(* Texts are sequences of one-character strings.  Python floats are        *)
(* modelled as exact rationals <<numerator, denominator>>.                 *)
(***************************************************************************)
EXTENDS Integers, Sequences, FiniteSets, TLC

\* ------------------------------------------------------------------ bounds
\* Number of editing calls made on the DurationInput.
MaxCalls == 2
\* Longest FloatInput text.
MaxFloatLen == 4
\* Number of channel_out.write calls recorded.
MaxWrites == 2

VARIABLES
    \* DurationInput
    text,           \* DurationInput.text
    last_text,      \* DurationInput.last_text
    cursor,         \* DurationInput.cursor, <<column, row>>
    dcall,          \* the last call made on the DurationInput, with its entry state
    ncalls,         \* calls made on the DurationInput so far
    \* FloatInput
    ftext,          \* FloatInput.text
    fcursor,        \* FloatInput cursor column
    fcall,          \* the last call made on the FloatInput
    \* Variable
    obj,            \* the constructed Variable (family, limits, options, channel_out)
    value,          \* Variable.value
    user_is_editing,\* Variable.user_is_editing
    display_text,   \* Variable.value_display.text
    writes,         \* the percentages handed to channel_out.write, in order
    vcall           \* the last call made on the Variable, with its entry state

dvars == <<text, last_text, cursor, dcall, ncalls>>
fvars == <<ftext, fcursor, fcall>>
vvars == <<obj, value, user_is_editing, display_text, writes, vcall>>
vars == <<dvars, fvars, vvars>>

\* ------------------------------------------------------------ text helpers
Min(a, b) == IF a < b THEN a ELSE b
Max(a, b) == IF a > b THEN a ELSE b

DigitChars == {"0", "1", "2", "3", "4", "5", "6", "7", "8", "9"}

\* Python's index normalisation for the bounds of a slice of a sequence of length n.
slice_index(i, n) == IF i < 0 THEN Max(i + n, 0) ELSE Min(i, n)
\* s[:i]
slice_to(s, i) == SubSeq(s, 1, slice_index(i, Len(s)))
\* s[i:]
slice_from(s, i) == SubSeq(s, slice_index(i, Len(s)) + 1, Len(s))

IsDigit(c) == c \in DigitChars
\* re.sub('[^0-9]', '', s)
strip_non_digits(s) == SelectSeq(s, IsDigit)

\* re.findall('..', s) on a text without newlines: the non-overlapping pairs.
RECURSIVE findall_pairs(_)
findall_pairs(s) ==
    IF Len(s) < 2 THEN <<>>
    ELSE <<SubSeq(s, 1, 2)>> \o findall_pairs(SubSeq(s, 3, Len(s)))

\* sep.join(parts)
RECURSIVE join(_, _)
join(sep, parts) ==
    IF parts = <<>> THEN <<>>
    ELSE IF Len(parts) = 1 THEN parts[1]
    ELSE parts[1] \o sep \o join(sep, Tail(parts))

\* ------------------------------------------------------------ DurationInput
total_seconds_digits == 2 + 2 + 2 + 3
separators_positions == {2, 5, 8}

\* The loop of cursor_advancement_in_real_text.
RECURSIVE advance_loop(_, _)
advance_loop(c, digits_added) ==
    IF digits_added = 0 THEN c
    ELSE advance_loop((IF c \in separators_positions THEN c + 1 ELSE c) + 1,
                      digits_added - 1)

\* A cursor advancement that does not step over a separator it lands on.
cursor_advancement_landing_on_separator(txt, c, digits_added) ==
    Min(advance_loop(c, digits_added), Len(txt) - 1)

cursor_advancement_in_real_text(txt, c, digits_added) ==
    LET after == advance_loop(c, digits_added)
        skipped == IF after \in separators_positions THEN after + 1 ELSE after
    IN  Min(skipped, Len(txt) - 1)

\* An edit that inserts the digits instead of overwriting the ones after the cursor.
new_stripped_text_inserting(txt, cc, stripped_substring) ==
    SubSeq(strip_non_digits(slice_to(txt, cc)) \o stripped_substring
             \o strip_non_digits(slice_from(txt, cc)),
           1, total_seconds_digits)

\* Lines 346-347: the digits of the text after the edit.
new_stripped_text(txt, cc, stripped_substring) ==
    slice_to(strip_non_digits(slice_to(txt, cc)) \o stripped_substring
               \o slice_from(strip_non_digits(slice_from(txt, cc)),
                             Len(stripped_substring)),
             total_seconds_digits)

\* Lines 350-355: the digits laid out again for display.
new_formatted_text(stripped) ==
    LET milliseconds == slice_from(stripped, -3)
        rest == slice_to(stripped, -3)
        head == join(<<":">>, findall_pairs(rest))
    IN  IF Len(milliseconds) > 0 THEN head \o <<".">> \o milliseconds ELSE head

\* The toolkit's cursor property keeps the column within the line.
set_cursor(cc, cr, txt) == <<Max(0, Min(cc, Len(txt))), cr>>

\* The substrings typed or pasted: digits, other characters, both.
DurationSubstrings ==
    {<<>>, <<"1">>, <<"2">>, <<"x">>,
     <<"1", "1">>, <<"1", "2">>, <<"2", "1">>, <<"2", "2">>, <<"1", "x">>,
     <<"x", "1">>, <<"2", "x">>, <<"x", "2">>, <<"x", "x">>}
\* A text in the template 'dd:dd:dd.ddd'.
InitialDurationText == <<"0", "1", ":", "2", "3", ":", "4", "5", ".", "6", "7", "8">>

\* The widget as built with text in the template; last_text is either left at
\* its default or given the same text.
DurationInit ==
    /\ text = InitialDurationText
    /\ last_text \in {<<>>, InitialDurationText}
    /\ cursor = <<0, 0>>
    /\ dcall = [op |-> "init"]
    /\ ncalls = 0

\* insert_text(substring) with the cursor at column cc_in on entry.
DurationInput_insert_text(substring, cc_in) ==
    /\ ncalls < MaxCalls
    /\ ncalls' = ncalls + 1
    /\ LET cr == cursor[2] IN
       IF Len(text) # Len(last_text)
       THEN /\ text' = last_text
            /\ cursor' = set_cursor(cc_in, cr, last_text)
            /\ UNCHANGED last_text
            /\ dcall' = [op |-> "insert_text", path |-> "restore",
                         substring |-> substring, cc |-> cc_in, cr |-> cr,
                         text |-> text, last_text |-> last_text]
       ELSE LET stripped_substring == strip_non_digits(substring)
                cc == cursor_advancement_in_real_text(text, cc_in, 0)
                formatted == new_formatted_text(
                                 new_stripped_text(text, cc, stripped_substring))
                cc2 == cursor_advancement_in_real_text(formatted, cc,
                                                       Len(stripped_substring))
            IN  /\ text' = formatted
                /\ cursor' = set_cursor(cc2, cr, formatted)
                /\ last_text' = formatted
                /\ dcall' = [op |-> "insert_text", path |-> "normal",
                             substring |-> substring, cc |-> cc_in, cr |-> cr,
                             text |-> text, last_text |-> last_text]

DurationInput_do_backspace ==
    /\ ncalls < MaxCalls
    /\ ncalls' = ncalls + 1
    /\ dcall' = [op |-> "do_backspace", text |-> text, last_text |-> last_text]
    /\ UNCHANGED <<text, last_text, cursor>>

DurationInput_select_text ==
    /\ ncalls < MaxCalls
    /\ ncalls' = ncalls + 1
    /\ dcall' = [op |-> "select_text", text |-> text, last_text |-> last_text]
    /\ UNCHANGED <<text, last_text, cursor>>

InsertDuration ==
    \E substring \in DurationSubstrings, cc_in \in 0..Len(text) :
        DurationInput_insert_text(substring, cc_in)

\* ------------------------------------------------- DurationInput properties
\* 'dd:dd:dd.ddd'
IsTemplate(s) ==
    /\ Len(s) = 12
    /\ \A i \in 1..12 :
          IF i \in {3, 6} THEN s[i] = ":"
          ELSE IF i = 9 THEN s[i] = "."
          ELSE s[i] \in DigitChars

\* The digits of a text, left to right.
DigitsOf(s) == SelectSeq(s, LAMBDA ch : ch \in DigitChars)
\* The columns of the nine digits of the template.
DigitColumns == <<0, 1, 3, 4, 6, 7, 9, 10, 11>>
\* The number of template digits left of column c.
DigitsLeftOf(c) == Cardinality({i \in 1..9 : DigitColumns[i] < c})

NormalInsertOnTemplate ==
    /\ dcall.op = "insert_text"
    /\ dcall.path = "normal"
    /\ IsTemplate(dcall.text)

\* The edit described as an overwrite of the digits from digit index d + 1 on.
OverwrittenFrom(d) ==
    LET old == DigitsOf(dcall.text)
        sub == DigitsOf(dcall.substring)
        new == DigitsOf(text)
    IN  /\ IsTemplate(text)
        /\ Len(new) = 9
        /\ \A i \in 1..9 :
              new[i] = IF i <= d THEN old[i]
                       ELSE IF i <= d + Len(sub) THEN sub[i - d]
                       ELSE old[i]

\* C1: a DurationInput whose text starts as 'dd:dd:dd.ddd' keeps a text of that
\* form through every sequence of insert_text, do_backspace and select_text calls.
C1_TemplateKept == IsTemplate(text)

\* C8 as stated: with the cursor column only moved past a separator, the digits
\* left of the cursor are kept, the next k digits are replaced by the k digits of
\* the substring in order, the remaining digits are kept and the text keeps 9 digits.
C8_OverwriteAtCursor ==
    NormalInsertOnTemplate =>
        OverwrittenFrom(DigitsLeftOf(IF dcall.cc \in {2, 5, 8}
                                     THEN dcall.cc + 1 ELSE dcall.cc))

\* C8 amended: the same, with the cursor column moved past a separator and then
\* capped at column 11, the column of the last digit.
C8_OverwriteAtCappedCursor ==
    NormalInsertOnTemplate =>
        OverwrittenFrom(DigitsLeftOf(Min(IF dcall.cc \in {2, 5, 8}
                                         THEN dcall.cc + 1 ELSE dcall.cc, 11)))

\* Two digits and a dropped character typed on a separator column.
C8_Witness ==
    /\ NormalInsertOnTemplate
    /\ dcall.cc = 5
    /\ dcall.substring = <<"1", "x">>
    /\ dcall.text = InitialDurationText
    /\ text = <<"0", "1", ":", "2", "3", ":", "1", "5", ".", "6", "7", "8">>

\* C9: after a normal insert_text on a template text the cursor column is in
\* 0..11, is no separator column, and is the column of the digit that lies k
\* digits after the entry column (k the digits of the substring), or column 11
\* when there is no such digit; the cursor row is the entry row.
C9_CursorAfterInsert ==
    NormalInsertOnTemplate =>
        LET k == Len(DigitsOf(dcall.substring))
            target == DigitsLeftOf(dcall.cc) + k + 1
        IN  /\ cursor[1] \in 0..11
            /\ cursor[1] \notin {2, 5, 8}
            /\ cursor[1] = IF target > 9 THEN 11 ELSE DigitColumns[target]
            /\ cursor[2] = dcall.cr

\* Two digits typed at column 4: the cursor steps over the separator at column 5.
C9_Witness ==
    /\ NormalInsertOnTemplate
    /\ dcall.cc = 4
    /\ Len(DigitsOf(dcall.substring)) = 2
    /\ cursor[1] = 7


\* --------------------------------------------------------------- FloatInput
\* substring.split('.', 1)
split_at_first_dot(s) ==
    IF \E i \in 1..Len(s) : s[i] = "."
    THEN LET i == CHOOSE j \in 1..Len(s) :
                      s[j] = "." /\ \A k \in 1..(j - 1) : s[k] # "."
         IN  <<SubSeq(s, 1, i - 1), SubSeq(s, i + 1, Len(s))>>
    ELSE <<s>>

\* A filter that lets a decimal point through whether or not the text has one.
filtered_substring_ignoring_text(txt, substring) ==
    LET parts == split_at_first_dot(substring)
    IN  join(<<".">>, [i \in 1..Len(parts) |-> strip_non_digits(parts[i])])

\* Lines 284-288: what FloatInput.insert_text hands to TextInput.insert_text.
filtered_substring(txt, substring) ==
    IF \E i \in 1..Len(txt) : txt[i] = "."
    THEN strip_non_digits(substring)
    ELSE LET parts == split_at_first_dot(substring)
         IN  join(<<".">>, [i \in 1..Len(parts) |-> strip_non_digits(parts[i])])

\* The substrings typed or pasted: digits, decimal points, other characters.
FloatSubstrings ==
    {<<>>, <<"1">>, <<".">>, <<"x">>, <<"1", ".">>, <<".", "1">>, <<".", ".">>, <<"1", "x">>, <<"x", ".">>,
     <<"1", ".", "1">>, <<"1", ".", "x">>, <<".", "1", ".">>, <<"x", ".", "1">>, <<"1", ".", ".">>, <<".", ".", "1">>}

FloatInit ==
    /\ ftext = <<>>
    /\ fcursor = 0
    /\ fcall = [op |-> "init"]

\* insert_text(substring) with the cursor at column cc_in on entry; the
\* toolkit's insert_text puts the filtered text at the cursor and moves the
\* cursor behind it.
FloatInput_insert_text(substring, cc_in) ==
    LET s == filtered_substring(ftext, substring) IN
    /\ Len(ftext) + Len(s) <= MaxFloatLen
    /\ ftext' = SubSeq(ftext, 1, cc_in) \o s \o SubSeq(ftext, cc_in + 1, Len(ftext))
    /\ fcursor' = cc_in + Len(s)
    /\ fcall' = [op |-> "insert_text", substring |-> substring, cc |-> cc_in,
                 text |-> ftext]

InsertFloat ==
    \E substring \in FloatSubstrings, cc_in \in 0..Len(ftext) :
        FloatInput_insert_text(substring, cc_in)

\* ---------------------------------------------------- FloatInput properties
\* C2: starting from an empty text, after every sequence of insert_text calls the
\* FloatInput text holds only the characters 0-9 and '.', and at most one '.'.
C2_DigitsAndOneDot ==
    /\ \A i \in 1..Len(ftext) : ftext[i] \in DigitChars \union {"."}
    /\ Cardinality({i \in 1..Len(ftext) : ftext[i] = "."}) <= 1

\* A substring with a letter and a decimal point arrives at a text that has one.
C2_Witness ==
    /\ fcall.op = "insert_text"
    /\ \E i \in 1..Len(fcall.text) : fcall.text[i] = "."
    /\ fcall.substring = <<"1", ".", "x">>
    /\ Len(ftext) = Len(fcall.text) + 1

\* ------------------------------------------------------------------ numbers
Abs(n) == IF n < 0 THEN -n ELSE n

RECURSIVE GCD(_, _)
GCD(a, b) == IF b = 0 THEN a ELSE GCD(b, a % b)

\* The rational n/d (d # 0) in lowest terms with a positive denominator.
Rat(n, d) ==
    LET g == GCD(Abs(n), Abs(d))
        sgn == IF d < 0 THEN -1 ELSE 1
    IN  <<(sgn * n) \div g, (sgn * d) \div g>>
RInt(n) == <<n, 1>>
RAdd(a, b) == Rat(a[1] * b[2] + b[1] * a[2], a[2] * b[2])
RSub(a, b) == Rat(a[1] * b[2] - b[1] * a[2], a[2] * b[2])
RMul(a, b) == Rat(a[1] * b[1], a[2] * b[2])
\* a / b for b # 0
RDiv(a, b) == Rat(a[1] * b[2], a[2] * b[1])
RLeq(a, b) == a[1] * b[2] <= b[1] * a[2]
\* int(a): truncation towards zero
RTrunc(a) == IF a[1] >= 0 THEN a[1] \div a[2] ELSE -((-a[1]) \div a[2])

RECURSIVE Pow10(_)
Pow10(k) == IF k = 0 THEN 1 ELSE 10 * Pow10(k - 1)

\* ------------------------------------------------- number parsing, formatting
DigitSeq == <<"0", "1", "2", "3", "4", "5", "6", "7", "8", "9">>
DigitVal(c) == (CHOOSE i \in 1..10 : DigitSeq[i] = c) - 1

RECURSIVE NatOfText(_)
NatOfText(s) ==
    IF s = <<>> THEN 0
    ELSE 10 * NatOfText(SubSeq(s, 1, Len(s) - 1)) + DigitVal(s[Len(s)])

RECURSIVE NatToText(_)
NatToText(n) ==
    IF n < 10 THEN <<DigitSeq[n + 1]>>
    ELSE NatToText(n \div 10) \o <<DigitSeq[(n % 10) + 1]>>

RECURSIVE ZeroPad(_, _)
ZeroPad(s, width) == IF Len(s) >= width THEN s ELSE ZeroPad(<<"0">> \o s, width)

\* int(s) accepts s, for the texts of digits, ':', '.' and letters used here.
int_accepts(s) == s # <<>> /\ \A i \in 1..Len(s) : s[i] \in DigitChars
\* float(s) accepts s, for the same texts: digits with at most one '.'.
float_accepts(s) ==
    /\ \A i \in 1..Len(s) : s[i] \in DigitChars \union {"."}
    /\ Cardinality({i \in 1..Len(s) : s[i] = "."}) <= 1
    /\ \E i \in 1..Len(s) : s[i] \in DigitChars
\* float(s) of an accepted text
float_of(s) ==
    LET parts == split_at_first_dot(s)
        frac == IF Len(parts) = 2 THEN parts[2] ELSE <<>>
    IN  Rat(NatOfText(parts[1] \o frac), Pow10(Len(frac)))

\* round() to the nearest integer, ties to even, of a rational >= 0
RoundHalfEven(a) ==
    LET f == a[1] \div a[2]
        r == a[1] % a[2]
    IN  IF 2 * r > a[2] THEN f + 1
        ELSE IF 2 * r < a[2] THEN f
        ELSE IF f % 2 = 0 THEN f ELSE f + 1

\* '{:0<width>.<decimals>f}'.format(a); width 0 for no padding
format_fixed(a, decimals, width) ==
    LET scaled == RoundHalfEven(RMul(<<Abs(a[1]), a[2]>>, RInt(Pow10(decimals))))
        whole == NatToText(scaled \div Pow10(decimals))
        frac == ZeroPad(NatToText(scaled % Pow10(decimals)), decimals)
        sign == IF a[1] < 0 THEN <<"-">> ELSE <<>>
    IN  sign \o ZeroPad(whole \o <<".">> \o frac, width - Len(sign))

\* '{:02d}'.format(n) for n >= 0
format_02d(n) == ZeroPad(NatToText(n), 2)

\* ---------------------------------------------------------------- Variable
\* A value of the value property: None, an int, a float or a text.
NoValue == [t |-> "none", q |-> <<0, 1>>, s |-> <<>>]
IntValue(n) == [t |-> "int", q |-> <<n, 1>>, s |-> <<>>]
FloatValue(a) == [t |-> "float", q |-> a, s |-> <<>>]
StrValue(str) == [t |-> "str", q |-> <<0, 1>>, s |-> str]
IsNumber(val) == val.t \in {"int", "float"}

\* The outcome of a conversion: a result, or the exception it raises.
Ok(v) == [ok |-> TRUE, v |-> v, exc |-> ""]
Raise(e) == [ok |-> FALSE, v |-> NoValue, exc |-> e]

AnalogFamilies == {"AnalogVariableUnipolar", "AnalogVariablePercentage"}
DigitalFamilies == {"DigitalVariable", "DigitalVariableOnOff"}
Duration == "AnalogVariableDurationInSeconds"
Families == AnalogFamilies \union DigitalFamilies \union {Duration}

\* A text_to_value that takes a text outside the pattern for a duration of zero.
duration_text_to_value_lenient(txt) ==
    IF ~(Len(txt) >= 6 /\ txt[3] = ":" /\ txt[6] = ":")
    THEN Ok(FloatValue(<<0, 1>>))
    ELSE LET g1 == SubSeq(txt, 1, 2)
             g2 == SubSeq(txt, 4, 5)
             g3 == SubSeq(txt, 7, Len(txt))
         IN  IF int_accepts(g1) /\ int_accepts(g2) /\ float_accepts(g3)
             THEN Ok(FloatValue(RAdd(RInt(NatOfText(g1) * 60 * 60 + NatOfText(g2) * 60),
                                     float_of(g3))))
             ELSE Ok(FloatValue(<<0, 1>>))

\* AnalogVariableDurationInSeconds.text_to_value: '(..):(..):(.*)' matched at
\* the start of the text, then int, int and float of the three groups.
duration_text_to_value(txt) ==
    IF ~(Len(txt) >= 6 /\ txt[3] = ":" /\ txt[6] = ":")
    THEN Raise("AttributeError")
    ELSE LET g1 == SubSeq(txt, 1, 2)
             g2 == SubSeq(txt, 4, 5)
             g3 == SubSeq(txt, 7, Len(txt))
         IN  IF int_accepts(g1) /\ int_accepts(g2) /\ float_accepts(g3)
             THEN Ok(FloatValue(RAdd(RInt(NatOfText(g1) * 60 * 60 + NatOfText(g2) * 60),
                                     float_of(g3))))
             ELSE Raise("ValueError")

\* Variable.text_to_value: type(self.value)(text)
cast_text_to_value(val, txt) ==
    CASE val.t = "none" -> Raise("TypeError")
      [] val.t = "int" -> IF int_accepts(txt) THEN Ok(IntValue(NatOfText(txt)))
                          ELSE Raise("ValueError")
      [] val.t = "float" -> IF float_accepts(txt) THEN Ok(FloatValue(float_of(txt)))
                            ELSE Raise("ValueError")
      [] val.t = "str" -> Ok(StrValue(txt))

text_to_value(o, val, txt) ==
    IF o.family = Duration THEN duration_text_to_value(txt)
    ELSE cast_text_to_value(val, txt)

\* AnalogVariableDurationInSeconds.value_to_text: divmod twice, then
\* '{:02d}:{:02d}:{:06.3f}'; the d format refuses a float.
duration_value_to_text(val) ==
    CASE val.t = "int" ->
             LET total == val.q[1]
                 sec == total % 60
                 min == (total \div 60) % 60
                 h == (total \div 60) \div 60
             IN  Ok(format_02d(h) \o <<":">> \o format_02d(min) \o <<":">>
                      \o format_fixed(RInt(sec), 3, 6))
      [] val.t = "float" -> Raise("ValueError")
      [] OTHER -> Raise("TypeError")

value_to_text(o, val) ==
    CASE o.family = Duration -> duration_value_to_text(val)
      [] o.family \in AnalogFamilies ->
             IF IsNumber(val) THEN Ok(format_fixed(val.q, 2, 2))
             ELSE Raise("ValueError")
      [] OTHER ->
             IF val.t = "str" THEN Ok(val.s) ELSE Ok(<<"N", "o", "n", "e">>)

percentage_to_value(o, percentage) ==
    CASE o.family \in AnalogFamilies ->
             Ok(FloatValue(RAdd(RInt(o.lower_limit),
                                RMul(RDiv(percentage, RInt(100)),
                                     RInt(o.upper_limit - o.lower_limit)))))
      [] o.family \in DigitalFamilies ->
             LET n == Len(o.options)
                 index == RTrunc(RMul(RDiv(percentage, RInt(100)), RInt(n - 1)))
             IN  IF index >= 0 /\ index < n THEN Ok(StrValue(o.options[index + 1]))
                 ELSE IF index < 0 /\ index >= -n
                      THEN Ok(StrValue(o.options[index + n + 1]))
                 ELSE Raise("IndexError")
      [] OTHER -> Raise("NotImplementedError")

value_to_percentage(o, val) ==
    CASE o.family \in AnalogFamilies ->
             IF ~IsNumber(val) THEN Raise("TypeError")
             ELSE IF o.upper_limit - o.lower_limit = 0 THEN Raise("ZeroDivisionError")
             ELSE Ok(RMul(RDiv(RSub(val.q, RInt(o.lower_limit)),
                               RInt(o.upper_limit - o.lower_limit)),
                          RInt(100)))
      [] o.family \in DigitalFamilies ->
             LET n == Len(o.options)
                 found == {i \in 1..n : val.t = "str" /\ o.options[i] = val.s}
             IN  IF found = {} THEN Raise("ValueError")
                 ELSE IF n - 1 = 0 THEN Raise("ZeroDivisionError")
                 ELSE LET i == CHOOSE j \in found : \A k \in found : j <= k
                      IN  Ok(RMul(RDiv(RInt(i - 1), RInt(n - 1)), RInt(100)))
      [] OTHER -> Raise("NotImplementedError")

\* The text property: value_to_text(self.value)
get_text_value(o, val) == value_to_text(o, val)

\* The ranges a caller passes to an analog variable.
Ranges == {<<0, 10>>, <<2, 6>>, <<5, 5>>, <<-5, 5>>}
\* The option lists a caller passes to a digital variable.
OptionLists == {<<<<"l", "o">>, <<"m", "i", "d">>, <<"h", "i">>>>, <<<<"o", "n", "l", "y">>>>}
on_off_options == <<<<"o", "f", "f">>, <<"o", "n">>>>
\* The percentages an input channel delivers.
Percentages == {RInt(0), RInt(50), RInt(100)}
\* The texts a user enters, by family.
AnalogTexts == {<<"0">>, <<"5">>, <<"2", "0">>, <<"2", ".", "5">>, <<"x">>}
DigitalTexts == {<<"l", "o">>, <<"h", "i">>, <<"o", "n">>, <<"x">>}
\* hours, minutes and milliseconds within the minute of the well-formed texts
DurationParts == {<<0, 0, 1000>>, <<1, 2, 3500>>, <<99, 59, 59999>>}
\* 'hh:mm:ss.mmm'
DurationText(part) ==
    format_02d(part[1]) \o <<":">> \o format_02d(part[2]) \o <<":">>
        \o ZeroPad(NatToText(part[3] \div 1000), 2) \o <<".">>
        \o ZeroPad(NatToText(part[3] % 1000), 3)
MalformedDurationTexts ==
    {<<>>, <<"1", ":", "2", ":", "3">>, <<"0", "0", ":", "0", "0">>, <<"0", "0", ":", "0", "0", ":">>, <<"a", "b", ":", "0", "0", ":", "0", "1">>, <<"0", "0", ":", "0", "0", ":", "x">>, <<"0", "0", ".", "0", "0", ".", "0", "1">>}
DurationTexts == {DurationText(part) : part \in DurationParts} \union MalformedDurationTexts

UserTexts(o) ==
    CASE o.family \in AnalogFamilies -> AnalogTexts
      [] o.family \in DigitalFamilies -> DigitalTexts
      [] OTHER -> DurationTexts

NoObject ==
    [family |-> "none", lower_limit |-> 0, upper_limit |-> 0, options |-> <<>>,
     channel_out |-> FALSE]

Call(op, txt, percentage, exc) ==
    [op |-> op, text |-> txt, percentage |-> percentage, exc |-> exc,
     value |-> value, display_text |-> display_text, writes |-> writes,
     user_is_editing |-> user_is_editing]

VariableInit ==
    /\ obj = NoObject
    /\ value = NoValue
    /\ user_is_editing = FALSE
    /\ display_text = <<>>
    /\ writes = <<>>
    /\ vcall = [op |-> "init", text |-> <<>>, percentage |-> RInt(0), exc |-> "",
                value |-> NoValue, display_text |-> <<>>, writes |-> <<>>,
                user_is_editing |-> FALSE]

\* AnalogVariableUnipolar.__init__: the range check.
unipolar_range_accepted(range) == ~(range[2] * range[1] < 0)

\* family(range=..., options=..., channel_out=...)
Construct(family, range, options, channel_out) ==
    /\ obj.family = "none"
    /\ IF family \in AnalogFamilies /\ ~unipolar_range_accepted(range)
       THEN /\ vcall' = Call("construct", <<>>, RInt(0), "ValueError")
            /\ UNCHANGED <<obj, value, user_is_editing, display_text, writes>>
       ELSE /\ obj' = [family |-> family, lower_limit |-> range[1],
                       upper_limit |-> range[2], options |-> options,
                       channel_out |-> channel_out]
            /\ value' = IF family = Duration THEN IntValue(0) ELSE NoValue
            /\ vcall' = Call("construct", <<>>, RInt(0), "")
            /\ UNCHANGED <<user_is_editing, display_text, writes>>

ConstructVariable ==
    \E family \in Families, channel_out \in BOOLEAN :
        \E range \in (CASE family = "AnalogVariableUnipolar" -> Ranges
                        [] family = "AnalogVariablePercentage" -> {<<0, 100>>}
                        [] OTHER -> {<<0, 0>>}),
           options \in (CASE family = "DigitalVariable" -> OptionLists
                          [] family = "DigitalVariableOnOff" -> {on_off_options}
                          [] OTHER -> {<<>>}) :
            Construct(family, range, options, channel_out)

\* user_is_editing is set by the widget when the value display gains or loses focus.
set_user_is_editing(editing) ==
    /\ obj.family # "none"
    /\ user_is_editing # editing
    /\ user_is_editing' = editing
    /\ vcall' = Call("set_user_is_editing", <<>>, RInt(0), "")
    /\ UNCHANGED <<obj, value, display_text, writes>>

SetUserIsEditing == \E editing \in BOOLEAN : set_user_is_editing(editing)

user_entered_text(txt) ==
    /\ obj.family # "none"
    /\ Len(writes) < MaxWrites
    /\ LET tv == text_to_value(obj, value, txt) IN
       IF ~tv.ok
       THEN /\ vcall' = Call("user_entered_text", txt, RInt(0), tv.exc)
            /\ UNCHANGED <<obj, value, user_is_editing, display_text, writes>>
       ELSE /\ value' = tv.v
            /\ LET vp == value_to_percentage(obj, tv.v) IN
               IF ~obj.channel_out
               THEN /\ vcall' = Call("user_entered_text", txt, RInt(0), "")
                    /\ UNCHANGED writes
               ELSE IF ~vp.ok
               THEN /\ vcall' = Call("user_entered_text", txt, RInt(0), vp.exc)
                    /\ UNCHANGED writes
               ELSE /\ vcall' = Call("user_entered_text", txt, RInt(0), "")
                    /\ writes' = Append(writes, vp.v)
            /\ UNCHANGED <<obj, user_is_editing, display_text>>

UserEnteredText == \E txt \in UserTexts(obj) : user_entered_text(txt)

\* A display that follows the channel while the user is editing, too.
text_shown_always_updated(editing, shown, new_text) == new_text

\* Lines 133-135: the value display after new data, given the text of the new value.
text_shown(editing, shown, new_text) == IF ~editing THEN new_text ELSE shown

new_data_arrived(percentage) ==
    /\ obj.family # "none"
    /\ LET pv == percentage_to_value(obj, percentage) IN
       IF ~pv.ok
       THEN /\ vcall' = Call("new_data_arrived", <<>>, percentage, pv.exc)
            /\ UNCHANGED <<obj, value, user_is_editing, display_text, writes>>
       ELSE /\ value' = pv.v
            /\ LET vt == get_text_value(obj, pv.v) IN
               IF ~user_is_editing /\ ~vt.ok
               THEN /\ vcall' = Call("new_data_arrived", <<>>, percentage, vt.exc)
                    /\ UNCHANGED display_text
               ELSE /\ vcall' = Call("new_data_arrived", <<>>, percentage, "")
                    /\ display_text' = text_shown(user_is_editing, display_text, vt.v)
            /\ UNCHANGED <<obj, user_is_editing, writes>>

NewDataArrived == \E percentage \in Percentages : new_data_arrived(percentage)

\* ------------------------------------------------------ Variable properties
\* A text the family's text_to_value accepts; for a digital variable, an option.
WellFormedText(o, val, txt) ==
    /\ text_to_value(o, val, txt).ok
    /\ o.family \in DigitalFamilies => \E i \in 1..Len(o.options) : o.options[i] = txt

\* C3: in every family, user_entered_text with a well-formed text sets value to
\* text_to_value(text); with a channel_out it then makes exactly one write, of
\* value_to_percentage of the new value, and without one it writes nothing.
C3_EntryIsWrittenOnce ==
    (vcall.op = "user_entered_text" /\ WellFormedText(obj, vcall.value, vcall.text)) =>
        /\ value = text_to_value(obj, vcall.value, vcall.text).v
        /\ IF obj.channel_out
           THEN /\ value_to_percentage(obj, value).ok
                /\ writes = Append(vcall.writes, value_to_percentage(obj, value).v)
           ELSE writes = vcall.writes

C5_WrittenPercentageInRange ==
    (obj.family = "AnalogVariableUnipolar" /\ obj.lower_limit < obj.upper_limit) =>
        /\ value_to_percentage(obj, FloatValue(RInt(obj.lower_limit))).v = RInt(0)
        /\ value_to_percentage(obj, FloatValue(RInt(obj.upper_limit))).v = RInt(100)
        /\ (vcall.op = "user_entered_text" /\ Len(writes) > Len(vcall.writes)) =>
               /\ RLeq(RInt(0), writes[Len(writes)])
               /\ RLeq(writes[Len(writes)], RInt(100))

\* C6: a range with limits of opposite signs raises ValueError and leaves no
\* instance, and on every constructed AnalogVariableUnipolar both conversions are
\* defined: value_to_percentage divides by a range that is not zero.
C6_ConstructedRangeConverts ==
    /\ (vcall.op = "construct" /\ vcall.exc = "ValueError") => obj.family = "none"
    /\ obj.family = "AnalogVariableUnipolar" =>
          /\ ~(obj.lower_limit * obj.upper_limit < 0)
          /\ percentage_to_value(obj, RInt(50)).ok
          /\ value_to_percentage(obj, FloatValue(RInt(obj.lower_limit))).ok

\* A duration text outside '(..):(..):(.*)', or with a group that is no number.
MalformedDurationText(txt) ==
    \/ Len(txt) < 6
    \/ txt[3] # ":"
    \/ txt[6] # ":"
    \/ \E i \in {1, 2, 4, 5} : txt[i] \notin DigitChars
    \/ \A i \in 7..Len(txt) : txt[i] \notin DigitChars
    \/ \E i \in 7..Len(txt) : txt[i] \notin DigitChars \union {"."}
    \/ Cardinality({i \in 7..Len(txt) : txt[i] = "."}) > 1

\* C7: user_entered_text with a malformed duration text ends in the error that
\* text_to_value raises, with value unchanged and nothing written.
C7_MalformedDurationRaises ==
    (vcall.op = "user_entered_text" /\ obj.family = Duration
        /\ MalformedDurationText(vcall.text)) =>
        /\ vcall.exc \in {"AttributeError", "ValueError"}
        /\ value = vcall.value
        /\ writes = vcall.writes

\* A text outside the pattern is entered after a value was set.
C7_Witness ==
    /\ vcall.op = "user_entered_text"
    /\ obj.family = Duration
    /\ obj.channel_out
    /\ vcall.text = <<"1", ":", "2", ":", "3">>
    /\ vcall.exc = "AttributeError"
    /\ value.t = "float"

\* C10: for a text 'hh:mm:ss.mmm', text_to_value is hh*3600 + mm*60 + ss.mmm
\* seconds, value_to_text of it returns the text without error, and after
\* user_entered_text(text) the text property reads that text.
C10_DurationRoundTrip ==
    \A part \in DurationParts :
        (vcall.op = "user_entered_text" /\ obj.family = Duration
            /\ vcall.text = DurationText(part)) =>
            /\ value.q = Rat(part[1] * 3600000 + part[2] * 60000 + part[3], 1000)
            /\ value_to_text(obj, text_to_value(obj, vcall.value, vcall.text).v).ok
            /\ get_text_value(obj, value).ok
            /\ get_text_value(obj, value).v = vcall.text

\* ----------------------------------------------------------- specifications
\* A DurationInput as TextInput builds it, before any text is set.
DurationIdle ==
    /\ text = <<>>
    /\ last_text = <<>>
    /\ cursor = <<0, 0>>
    /\ dcall = [op |-> "init"]
    /\ ncalls = 0

DurationSpecInit == DurationInit /\ FloatInit /\ VariableInit
FloatSpecInit == DurationIdle /\ FloatInit /\ VariableInit
VariableSpecInit == DurationIdle /\ FloatInit /\ VariableInit

DurationNext ==
    \/ InsertDuration /\ UNCHANGED <<fvars, vvars>>
    \/ DurationInput_do_backspace /\ UNCHANGED <<fvars, vvars>>
    \/ DurationInput_select_text /\ UNCHANGED <<fvars, vvars>>

FloatNext == InsertFloat /\ UNCHANGED <<dvars, vvars>>

VariableNext ==
    \/ ConstructVariable /\ UNCHANGED <<dvars, fvars>>
    \/ SetUserIsEditing /\ UNCHANGED <<dvars, fvars>>
    \/ UserEnteredText /\ UNCHANGED <<dvars, fvars>>
    \/ NewDataArrived /\ UNCHANGED <<dvars, fvars>>

SpecDuration == DurationSpecInit /\ [][DurationNext]_vars
SpecFloat == FloatSpecInit /\ [][FloatNext]_vars
SpecVariable == VariableSpecInit /\ [][VariableNext]_vars
====
